---- MODULE Spec2Model ----
(***************************************************************************)
(* Processing nodes of the OpenBCI Python framework: the sliding-window    *)
(* segmenter, Interpolate and DataReplicate.  A node is constructed from a *)
(* parameter dictionary (validation, then field initialisation), data is   *)
(* placed on the channels of its main input, and the node's transformation *)
(* is applied to that data.                                                *)
(***************************************************************************)
EXTENDS Integers, Sequences, FiniteSets

VARIABLES parameters, exception, node, data, output, pc

vars == <<parameters, exception, node, data, output, pc>>

\* ---------------------------------------------------------------- bounds
MaxWindow == 5
MaxRepetition == 4
MaxLen == 5

Channels == {"ch1", "ch2"}
Values == {1, 2}

\* ------------------------------------------------- parameter dictionaries
\* A dictionary entry: absent, or a Python value of type int, str or bool.
Absent == [kind |-> "absent", int |-> 0, str |-> "", bool |-> FALSE]
IntV(n) == [kind |-> "int", int |-> n, str |-> "", bool |-> FALSE]
StrV(s) == [kind |-> "str", int |-> 0, str |-> s, bool |-> FALSE]
BoolV(b) == [kind |-> "bool", int |-> 0, str |-> "", bool |-> b]

IntParam(max) == {Absent, BoolV(TRUE)} \cup {IntV(n) : n \in 0..max}
StrParam == {Absent, IntV(0), StrV("zero"), StrV("latest"), StrV("mean")}
BoolParam == {Absent, IntV(1), BoolV(TRUE), BoolV(FALSE)}

\* ------------------------------------------------------------- exceptions
NoException == [type |-> "none", module |-> "", parameter |-> "", cause |-> ""]
MissingParameterError(m, p) ==
    [type |-> "MissingParameterError", module |-> m, parameter |-> p, cause |-> ""]
InvalidParameterValue(m, p, c) ==
    [type |-> "InvalidParameterValue", module |-> m, parameter |-> p, cause |-> c]

\* ------------------------------------------------------- Python helpers
Min(a, b) == IF a < b THEN a ELSE b
\* s[a:b] for 0 <= a
Slice(s, a, b) == SubSeq(s, a + 1, Min(b, Len(s)))
\* [x] * n
Repeat(x, n) == [i \in 1..n |-> x]
\* max(s) for a non-empty list
max(s) == CHOOSE m \in {s[i] : i \in 1..Len(s)} : \A i \in 1..Len(s) : s[i] <= m
\* FrameworkData.get_data_count on rectangular data
get_data_count(d) == Len(d[CHOOSE c \in Channels : TRUE])
\* FrameworkData with no data on any channel
EmptyData == [c \in Channels |-> <<>>]
\* FrameworkData.input_data_on_channel(elements, channel)
input_data_on_channel(d, elements, channel) ==
    [d EXCEPT ![channel] = @ \o elements]

\* concatenation of a list of lists (successive input_data_on_channel calls)
RECURSIVE Flatten(_)
Flatten(ss) == IF ss = <<>> THEN <<>> ELSE Head(ss) \o Flatten(Tail(ss))

\* ------------------------------------------------ SlidingWindowSegmenter
SlidingWindowSegmenter_MODULE_NAME == "node.processing.segmenter.slidingwindowsegmenter"

\* Variant: the upper limit of step_size is tested with > instead of >=.
SlidingWindowSegmenter_validate_parameters_step_gt(p) ==
    LET m == SlidingWindowSegmenter_MODULE_NAME
    IN IF p.window_size.kind = "absent" THEN MissingParameterError(m, "window_size")
       ELSE IF p.filling_value.kind = "absent" THEN MissingParameterError(m, "filling_value")
       ELSE IF p.step_size.kind = "absent" THEN MissingParameterError(m, "step_size")
       ELSE IF p.window_size.kind # "int"
           THEN InvalidParameterValue(m, "window_size", "must_be_int")
       ELSE IF p.window_size.int < 1
           THEN InvalidParameterValue(m, "window_size", "must_be_greater_than_0")
       ELSE IF p.filling_value.kind # "str"
           THEN InvalidParameterValue(m, "filling_value", "must_be_str")
       ELSE IF p.filling_value.str \notin {"zero", "latest"}
           THEN InvalidParameterValue(m, "filling_value", "must_be_in.[zero, latest]")
       ELSE IF p.step_size.kind # "int"
           THEN InvalidParameterValue(m, "step_size", "must_be_int")
       ELSE IF p.step_size.int < 1 \/ p.step_size.int > p.window_size.int
           THEN InvalidParameterValue(m, "step_size",
                    "must_be_greater_than_0_and_smaller_than_window_size")
       ELSE NoException

SlidingWindowSegmenter_validate_parameters(p) ==
    IF p.window_size.kind = "absent" THEN MissingParameterError(SlidingWindowSegmenter_MODULE_NAME, "window_size")
    ELSE IF p.filling_value.kind = "absent" THEN MissingParameterError(SlidingWindowSegmenter_MODULE_NAME, "filling_value")
    ELSE IF p.step_size.kind = "absent" THEN MissingParameterError(SlidingWindowSegmenter_MODULE_NAME, "step_size")
    ELSE IF p.window_size.kind # "int"
        THEN InvalidParameterValue(SlidingWindowSegmenter_MODULE_NAME, "window_size", "must_be_int")
    ELSE IF p.window_size.int < 1
        THEN InvalidParameterValue(SlidingWindowSegmenter_MODULE_NAME, "window_size", "must_be_greater_than_0")
    ELSE IF p.filling_value.kind # "str"
        THEN InvalidParameterValue(SlidingWindowSegmenter_MODULE_NAME, "filling_value", "must_be_str")
    ELSE IF p.filling_value.str \notin {"zero", "latest"}
        THEN InvalidParameterValue(SlidingWindowSegmenter_MODULE_NAME, "filling_value", "must_be_in.[zero, latest]")
    ELSE IF p.step_size.kind # "int"
        THEN InvalidParameterValue(SlidingWindowSegmenter_MODULE_NAME, "step_size", "must_be_int")
    ELSE IF p.step_size.int < 1 \/ p.step_size.int >= p.window_size.int
        THEN InvalidParameterValue(SlidingWindowSegmenter_MODULE_NAME, "step_size",
                 "must_be_greater_than_0_and_smaller_than_window_size")
    ELSE NoException

SlidingWindowSegmenter_init(p) ==
    [type |-> "SlidingWindowSegmenter",
     window_size |-> p.window_size.int,
     filling_value |-> p.filling_value.str,
     step_size |-> p.step_size.int]

\* Variant: the loop runs as long as samples are left at index.
segment_while_condition_any_left(self, index, data_count) ==
    index < data_count

\* Variant: the loop also runs when the window ends exactly at data_count.
segment_while_condition_inclusive(self, index, data_count) ==
    (index + self.window_size) <= data_count

\* while (index + self.window_size) < data_count
segment_while_condition(self, index, data_count) ==
    (index + self.window_size) < data_count

\* Variant: the slice is step_size long instead of window_size long.
segment_epoch_step(self, d, channel, index) ==
    Slice(d[channel], index, index + self.step_size)

\* data._data[channel][index:(index + self.window_size)]
segment_epoch(self, d, channel, index) ==
    Slice(d[channel], index, index + self.window_size)

\* Variant: the loop emits the window at index before it tests the condition,
\* so the window it stops on is emitted by the loop and by the final branch.
RECURSIVE segment_loop_emit_first(_, _, _, _)
segment_loop_emit_first(self, d, index, segmented_data) ==
    LET emitted ==
            [channel \in Channels |->
                input_data_on_channel(segmented_data,
                    <<segment_epoch(self, d, channel, index)>>, channel)[channel]]
    IN IF segment_while_condition(self, index, get_data_count(d))
       THEN segment_loop_emit_first(self, d, index + self.step_size, emitted)
       ELSE [index |-> index, segmented_data |-> emitted]

\* The while loop: every pass gives each channel one more epoch and advances
\* index by step_size.  Yields the index at loop exit and the epochs so far.
RECURSIVE segment_loop(_, _, _, _)
segment_loop(self, d, index, segmented_data) ==
    IF segment_while_condition(self, index, get_data_count(d))
    THEN segment_loop(self, d, index + self.step_size,
             [channel \in Channels |->
                 input_data_on_channel(segmented_data,
                     <<segment_epoch(self, d, channel, index)>>, channel)[channel]])
    ELSE [index |-> index, segmented_data |-> segmented_data]

\* Variant: 'latest' repeats the last sample of one fixed channel on all channels.
segment_filling_vector_shared(self, d, channel, remaining_data) ==
    IF self.filling_value = "zero"
    THEN Repeat(0, self.window_size - remaining_data)
    ELSE IF self.filling_value = "latest"
    THEN Repeat(d[CHOOSE c \in Channels : TRUE][get_data_count(d)],
                self.window_size - remaining_data)
    ELSE <<>>

\* Variant: 'latest' repeats the first sample of the final slice.
segment_filling_vector_first(self, d, channel, remaining_data) ==
    IF self.filling_value = "zero"
    THEN Repeat(0, self.window_size - remaining_data)
    ELSE IF self.filling_value = "latest"
    THEN Repeat(d[channel][get_data_count(d) - remaining_data + 1],
                self.window_size - remaining_data)
    ELSE <<>>

segment_filling_vector(self, d, channel, remaining_data) ==
    IF self.filling_value = "zero"
    THEN Repeat(0, self.window_size - remaining_data)
    ELSE IF self.filling_value = "latest"
    THEN Repeat(d[channel][get_data_count(d)], self.window_size - remaining_data)
    ELSE <<>>

segment_data(self, d) ==
    LET data_count == get_data_count(d)
        loop == segment_loop(self, d, 0, EmptyData)
        index == loop.index
        remaining_data == data_count - index
    IN IF remaining_data # 0
       THEN [channel \in Channels |->
                input_data_on_channel(loop.segmented_data,
                    <<Slice(d[channel], index, data_count)
                        \o segment_filling_vector(self, d, channel, remaining_data)>>,
                    channel)[channel]]
       ELSE loop.segmented_data
\* ------------------------------------------------------------ Interpolate
Interpolate_MODULE_NAME == "node.processing.interpolate"

\* Variant: the lower limit of step_size is tested with < 1, as the segmenter does.
Interpolate_validate_parameters_step_lt(p) ==
    LET m == Interpolate_MODULE_NAME
    IN IF p.window_size.kind = "absent" THEN MissingParameterError(m, "window_size")
       ELSE IF p.window_size.kind # "int"
           THEN InvalidParameterValue(m, "window_size", "must_be_int")
       ELSE IF p.window_size.int <= 1
           THEN InvalidParameterValue(m, "window_size", "must_be_greater_than_0")
       ELSE IF p.sliding_window.kind = "absent"
           THEN MissingParameterError(m, "sliding_window")
       ELSE IF p.sliding_window.kind # "bool"
           THEN InvalidParameterValue(m, "sliding_window", "must_be_bool")
       ELSE IF p.sliding_window.bool = TRUE
           THEN IF p.step_size.kind = "absent" THEN MissingParameterError(m, "step_size")
                ELSE IF p.step_size.kind # "int"
                    THEN InvalidParameterValue(m, "step_size", "must_be_int")
                ELSE IF (p.step_size.int < 1) \/ (p.step_size.int >= p.window_size.int)
                    THEN InvalidParameterValue(m, "step_size", "invalid_value")
                ELSE NoException
       ELSE NoException

Interpolate_validate_parameters(p) ==
    IF p.window_size.kind = "absent" THEN MissingParameterError(Interpolate_MODULE_NAME, "window_size")
    ELSE IF p.window_size.kind # "int"
        THEN InvalidParameterValue(Interpolate_MODULE_NAME, "window_size", "must_be_int")
    ELSE IF p.window_size.int <= 1
        THEN InvalidParameterValue(Interpolate_MODULE_NAME, "window_size", "must_be_greater_than_0")
    ELSE IF p.sliding_window.kind = "absent" THEN MissingParameterError(Interpolate_MODULE_NAME, "sliding_window")
    ELSE IF p.sliding_window.kind # "bool"
        THEN InvalidParameterValue(Interpolate_MODULE_NAME, "sliding_window", "must_be_bool")
    ELSE IF p.sliding_window.bool = TRUE
        THEN IF p.step_size.kind = "absent" THEN MissingParameterError(Interpolate_MODULE_NAME, "step_size")
             ELSE IF p.step_size.kind # "int"
                 THEN InvalidParameterValue(Interpolate_MODULE_NAME, "step_size", "must_be_int")
             ELSE IF (p.step_size.int <= 1) \/ (p.step_size.int >= p.window_size.int)
                 THEN InvalidParameterValue(Interpolate_MODULE_NAME, "step_size", "invalid_value")
             ELSE NoException
    ELSE NoException

\* step_size is set on the node only when sliding_window is True
Interpolate_initialize_parameter_fields(p) ==
    IF p.sliding_window.bool = TRUE
    THEN [type |-> "Interpolate",
          window_size |-> p.window_size.int,
          sliding_window |-> TRUE,
          step_size |-> p.step_size.int]
    ELSE [type |-> "Interpolate",
          window_size |-> p.window_size.int,
          sliding_window |-> FALSE]

Interpolate_is_processing_condition_satisfied(d) == get_data_count(d) > 0

\* Variant: the value of a window joins the last step_size slots instead of
\* the last intersection_lenght slots.
RECURSIVE interpolate_merge_step_overlap(_, _, _, _, _)
interpolate_merge_step_overlap(self, values, window, window_end_index, merged_data) ==
    IF window < Len(values)
    THEN LET value == values[window + 1]
             overlapped ==
                 [i \in 1..Len(merged_data) |->
                     IF /\ window_end_index - self.step_size <= i - 1
                        /\ i - 1 < window_end_index
                     THEN Append(merged_data[i], value)
                     ELSE merged_data[i]]
         IN interpolate_merge_step_overlap(self, values, window + 1,
                window_end_index + self.step_size,
                overlapped \o Repeat(<<value>>, self.step_size))
    ELSE merged_data

\* The while loop over the windows after the first one: the value of the
\* window joins the candidates of the last intersection_lenght slots, then
\* step_size new slots are opened with it.  windows are counted from 0.
RECURSIVE interpolate_merge(_, _, _, _, _)
interpolate_merge(self, values, window, window_end_index, merged_data) ==
    IF window < Len(values)
    THEN LET intersection_lenght == self.window_size - self.step_size
             value == values[window + 1]
             overlapped ==
                 [i \in 1..Len(merged_data) |->
                     IF /\ window_end_index - intersection_lenght <= i - 1
                        /\ i - 1 < window_end_index
                     THEN Append(merged_data[i], value)
                     ELSE merged_data[i]]
         IN interpolate_merge(self, values, window + 1,
                window_end_index + self.step_size,
                overlapped \o Repeat(<<value>>, self.step_size))
    ELSE merged_data

\* merged_data of one channel when the while loop has ended
interpolate_merged_data(self, d, channel) ==
    interpolate_merge(self, d[channel], 1, self.window_size,
        Repeat(<<d[channel][1]>>, self.window_size))

\* Variant: a slot with several candidates yields its latest candidate.
interpolate_resolve_latest(candidates) ==
    IF Len(candidates) > 1 THEN <<candidates[Len(candidates)]>> ELSE candidates

\* Variant: a slot with several candidates is passed on unresolved.
interpolate_resolve_all(candidates) == candidates

\* what one slot contributes to the output
interpolate_resolve(candidates) ==
    IF Len(candidates) > 1 THEN <<max(candidates)>> ELSE candidates

\* Variant: the non-sliding mode repeats a value window_size - 1 times.
Interpolate_process_short(self, d) ==
    IF self.sliding_window = TRUE
    THEN [channel \in Channels |->
            LET merged_data == interpolate_merged_data(self, d, channel)
            IN Flatten([index \in 1..Len(merged_data) |->
                           interpolate_resolve(merged_data[index])])]
    ELSE [channel \in Channels |->
            Flatten([window \in 1..get_data_count(d) |->
                        Repeat(d[channel][window], self.window_size - 1)])]

Interpolate_process(self, d) ==
    IF self.sliding_window = TRUE
    THEN [channel \in Channels |->
            LET merged_data == interpolate_merged_data(self, d, channel)
            IN Flatten([index \in 1..Len(merged_data) |->
                           interpolate_resolve(merged_data[index])])]
    ELSE [channel \in Channels |->
            Flatten([window \in 1..get_data_count(d) |->
                        Repeat(d[channel][window], self.window_size)])]

\* ---------------------------------------------------------- DataReplicate
DataReplicate_MODULE_NAME == "node.processing.dataReplicate"

DataReplicate_validate_parameters(p) ==
    IF p.data_repetition_count.kind = "absent"
        THEN MissingParameterError(DataReplicate_MODULE_NAME, "data_repetition_count")
    ELSE IF p.data_repetition_count.kind # "int"
        THEN InvalidParameterValue(DataReplicate_MODULE_NAME, "data_repetition_count", "must_be_int")
    ELSE IF p.data_repetition_count.int <= 1
        THEN InvalidParameterValue(DataReplicate_MODULE_NAME, "data_repetition_count", "must_be_bigger_than_1")
    ELSE IF p.use_extra_data.kind = "absent" THEN MissingParameterError(DataReplicate_MODULE_NAME, "use_extra_data")
    ELSE IF p.use_extra_data.kind # "bool"
        THEN InvalidParameterValue(DataReplicate_MODULE_NAME, "use_extra_data", "must_be_bool")
    ELSE IF p.use_extra_data.bool = TRUE
        THEN IF p.extra_data.kind = "absent" THEN MissingParameterError(DataReplicate_MODULE_NAME, "extra_data")
             ELSE IF p.extra_data.kind # "int"
                 THEN InvalidParameterValue(DataReplicate_MODULE_NAME, "extra_data", "must_be_int")
             ELSE IF (p.extra_data.int <= 1)
                        \/ (p.extra_data.int >= p.data_repetition_count.int)
                 THEN InvalidParameterValue(DataReplicate_MODULE_NAME, "extra_data", "invalid_value")
             ELSE NoException
    ELSE NoException

\* extra_data is set on the node only when use_extra_data is True
DataReplicate_initialize_parameter_fields(p) ==
    IF p.use_extra_data.bool = TRUE
    THEN [type |-> "DataReplicate",
          data_repetition_count |-> p.data_repetition_count.int,
          use_extra_data |-> TRUE,
          extra_data |-> p.extra_data.int]
    ELSE [type |-> "DataReplicate",
          data_repetition_count |-> p.data_repetition_count.int,
          use_extra_data |-> FALSE]

DataReplicate_is_processing_condition_satisfied(d) == get_data_count(d) > 0

\* [element for _ in range(0, self.data_repetition_count)], for every element
replicate_elements(self, channel_elements) ==
    Flatten([i \in 1..Len(channel_elements) |->
                Repeat(channel_elements[i], self.data_repetition_count)])

\* Variant: the tail repeats the first element of the channel.
replicate_extra_first(self, channel_elements) ==
    Repeat(channel_elements[1], self.extra_data)

\* [channel_elements[-1] for _ in range(0, self.extra_data)]
replicate_extra(self, channel_elements) ==
    Repeat(channel_elements[Len(channel_elements)], self.extra_data)

DataReplicate_process(self, d) ==
    [channel \in Channels |->
        LET channel_elements == d[channel]
        IN replicate_elements(self, channel_elements)
             \o (IF self.use_extra_data = TRUE
                 THEN replicate_extra(self, channel_elements)
                 ELSE <<>>)]

\* ------------------------------------------------------- the state machine
NoNode == [type |-> "none"]

SegmenterParameters ==
    [window_size : IntParam(MaxWindow), filling_value : StrParam,
     step_size : IntParam(MaxWindow)]
InterpolateParameters ==
    [window_size : IntParam(MaxWindow), sliding_window : BoolParam,
     step_size : IntParam(MaxWindow)]
DataReplicateParameters ==
    [data_repetition_count : IntParam(MaxRepetition), use_extra_data : BoolParam,
     extra_data : IntParam(MaxRepetition)]

Init ==
    /\ parameters = <<>>
    /\ exception = NoException
    /\ node = NoNode
    /\ data = EmptyData
    /\ output = EmptyData
    /\ pc = "start"

\* SlidingWindowSegmenter(parameters): validation, then the fields are set
NewSlidingWindowSegmenter ==
    /\ pc = "start"
    /\ \E p \in SegmenterParameters :
        /\ parameters' = p
        /\ exception' = SlidingWindowSegmenter_validate_parameters(p)
        /\ IF exception' = NoException
           THEN node' = SlidingWindowSegmenter_init(p) /\ pc' = "constructed"
           ELSE node' = node /\ pc' = "failed"
    /\ UNCHANGED <<data, output>>

NewInterpolate ==
    /\ pc = "start"
    /\ \E p \in InterpolateParameters :
        /\ parameters' = p
        /\ exception' = Interpolate_validate_parameters(p)
        /\ IF exception' = NoException
           THEN node' = Interpolate_initialize_parameter_fields(p) /\ pc' = "constructed"
           ELSE node' = node /\ pc' = "failed"
    /\ UNCHANGED <<data, output>>

NewDataReplicate ==
    /\ pc = "start"
    /\ \E p \in DataReplicateParameters :
        /\ parameters' = p
        /\ exception' = DataReplicate_validate_parameters(p)
        /\ IF exception' = NoException
           THEN node' = DataReplicate_initialize_parameter_fields(p) /\ pc' = "constructed"
           ELSE node' = node /\ pc' = "failed"
    /\ UNCHANGED <<data, output>>

\* One more sample arrives on every channel of the node's main input.
InputData ==
    /\ pc = "constructed"
    /\ get_data_count(data) < MaxLen
    /\ \E sample \in [Channels -> Values] :
        data' = [channel \in Channels |->
                    input_data_on_channel(data, <<sample[channel]>>, channel)[channel]]
    /\ UNCHANGED <<parameters, exception, node, output, pc>>

SegmentData ==
    /\ pc = "constructed"
    /\ node.type = "SlidingWindowSegmenter"
    /\ output' = segment_data(node, data)
    /\ pc' = "emitted"
    /\ UNCHANGED <<parameters, exception, node, data>>

InterpolateProcess ==
    /\ pc = "constructed"
    /\ node.type = "Interpolate"
    /\ Interpolate_is_processing_condition_satisfied(data)
    /\ output' = Interpolate_process(node, data)
    /\ pc' = "emitted"
    /\ UNCHANGED <<parameters, exception, node, data>>

DataReplicateProcess ==
    /\ pc = "constructed"
    /\ node.type = "DataReplicate"
    /\ DataReplicate_is_processing_condition_satisfied(data)
    /\ output' = DataReplicate_process(node, data)
    /\ pc' = "emitted"
    /\ UNCHANGED <<parameters, exception, node, data>>

Next ==
    \/ NewSlidingWindowSegmenter
    \/ NewInterpolate
    \/ NewDataReplicate
    \/ InputData
    \/ SegmentData
    \/ InterpolateProcess
    \/ DataReplicateProcess

Spec == Init /\ [][Next]_vars
\* ================================================================ claims
Attempted(module, type) ==
    \/ (pc = "failed" /\ exception.module = module)
    \/ (pc \in {"constructed", "emitted"} /\ node.type = type)
Accepted == pc \in {"constructed", "emitted"} /\ exception = NoException
Rejected == pc = "failed" /\ exception # NoException
IsInt(v) == v.kind = "int"
SomeAbsent(p) == \E k \in DOMAIN p : p[k].kind = "absent"
\* the exception kind follows the claim: MissingParameter exactly when a key
\* is absent, InvalidParameterValue otherwise
RejectedByKind(missing) ==
    /\ Rejected
    /\ exception.type = (IF missing THEN "MissingParameterError"
                         ELSE "InvalidParameterValue")

SegmenterAttempted ==
    Attempted(SlidingWindowSegmenter_MODULE_NAME, "SlidingWindowSegmenter")
SegmenterDomain(p, lowest_step) ==
    /\ IsInt(p.window_size) /\ p.window_size.int > 1
    /\ p.filling_value.kind = "str" /\ p.filling_value.str \in {"zero", "latest"}
    /\ IsInt(p.step_size)
    /\ lowest_step <= p.step_size.int /\ p.step_size.int < p.window_size.int

\* C1 as stated: a SlidingWindowSegmenter is constructed exactly for integer
\* window_size > 1, filling_value zero/latest and integer step_size with
\* 1 < step_size < window_size; everything else is rejected.
C1_AsStated ==
    SegmenterAttempted =>
        IF SegmenterDomain(parameters, 2) THEN Accepted
        ELSE RejectedByKind(SomeAbsent(parameters))

\* C1 (amended): a SlidingWindowSegmenter is constructed exactly for integer
\* window_size > 1, filling_value zero/latest and integer step_size with
\* 1 <= step_size < window_size (step_size = 1 is accepted); every other
\* parameter set is rejected, with MissingParameterError when a key is absent
\* and with InvalidParameterValue otherwise.
C1_SegmenterValidation ==
    SegmenterAttempted =>
        IF SegmenterDomain(parameters, 1)
        THEN Accepted /\ node = SlidingWindowSegmenter_init(parameters)
        ELSE RejectedByKind(SomeAbsent(parameters))

C1_Witness ==
    /\ SegmenterAttempted /\ Accepted
    /\ node.step_size = 1 /\ node.window_size = 2

SegmenterEmitted == pc = "emitted" /\ node.type = "SlidingWindowSegmenter"
CeilDiv(a, b) == (a + b - 1) \div b
\* epoch k (from 0) of channel c holds sample position i (from 0) of the input
EpochHolds(c, k, i) ==
    /\ k * node.step_size <= i /\ i < k * node.step_size + node.window_size
    /\ i - k * node.step_size + 1 <= Len(output[c][k + 1])
    /\ output[c][k + 1][i - k * node.step_size + 1] = data[c][i + 1]

\* C2: for N >= window_size every channel gets ceil((N - window_size) /
\* step_size) + 1 epochs, epoch k starts at sample index k * step_size, and
\* every sample index 0..N-1 lies in some epoch.
C2_EpochCountAndCoverage ==
    (SegmenterEmitted /\ get_data_count(data) >= node.window_size) =>
        \A c \in Channels :
            LET N == Len(data[c])
                epochs == output[c]
            IN /\ Len(epochs) = CeilDiv(N - node.window_size, node.step_size) + 1
               /\ \A k \in 0..(Len(epochs) - 1) :
                     /\ k * node.step_size < N
                     /\ EpochHolds(c, k, k * node.step_size)
               /\ \A i \in 0..(N - 1) :
                     \E k \in 0..(Len(epochs) - 1) : EpochHolds(c, k, i)

C2_Witness ==
    /\ SegmenterEmitted
    /\ get_data_count(data) > node.window_size
    /\ node.step_size > 1
    /\ \A c \in Channels : Len(output[c]) >= 2

\* index and remaining_data when the while loop of segment_data has ended
ExitIndex == segment_loop(node, data, 0, EmptyData).index
Remaining == get_data_count(data) - ExitIndex
FillingValue(c) ==
    IF node.filling_value = "zero" THEN 0 ELSE data[c][Len(data[c])]

\* C3: every epoch has window_size elements; the epochs before the final one
\* are unpadded slices; the final epoch is data[index:N] followed by
\* window_size - remaining fill elements (zeros, or the last sample), so it is
\* padded iff 0 < remaining < window_size and unpadded when remaining equals
\* window_size.
C3_EpochSizeAndPadding ==
    (SegmenterEmitted /\ get_data_count(data) >= 1) =>
        \A c \in Channels :
            LET N == Len(data[c])
                epochs == output[c]
                last == Len(epochs)
            IN /\ last >= 1
               /\ \A k \in 1..last : Len(epochs[k]) = node.window_size
               /\ \A k \in 1..(last - 1) :
                     epochs[k] = SubSeq(data[c], (k - 1) * node.step_size + 1,
                                        (k - 1) * node.step_size + node.window_size)
               /\ 0 < Remaining /\ Remaining <= node.window_size
               /\ ExitIndex = (last - 1) * node.step_size
               /\ epochs[last] = SubSeq(data[c], ExitIndex + 1, N)
                      \o Repeat(FillingValue(c), node.window_size - Remaining)

C3_Witness ==
    /\ SegmenterEmitted
    /\ node.filling_value = "latest"
    /\ Remaining > 1 /\ Remaining < node.window_size
    /\ \A c \in Channels :
          /\ Len(output[c]) >= 2
          /\ data[c][Len(data[c])] # data[c][ExitIndex + 1]

\* the first epoch in full, then the last step_size elements of each later one
Reassembled(epochs) ==
    epochs[1] \o Flatten([k \in 1..(Len(epochs) - 1) |->
        SubSeq(epochs[k + 1], node.window_size - node.step_size + 1,
               node.window_size)])

\* C4: for N >= 1 the first epoch followed by the last step_size elements of
\* every later epoch, cut to N elements, is the channel's input sequence.
C4_RoundTrip ==
    (SegmenterEmitted /\ get_data_count(data) >= 1) =>
        \A c \in Channels :
            /\ Len(output[c]) >= 1
            /\ Len(Reassembled(output[c])) >= Len(data[c])
            /\ SubSeq(Reassembled(output[c]), 1, Len(data[c])) = data[c]

C4_Witness ==
    /\ SegmenterEmitted
    /\ Remaining < node.window_size
    /\ node.step_size > 1
    /\ \A c \in Channels : Len(output[c]) >= 2
InterpolateEmitted == pc = "emitted" /\ node.type = "Interpolate"
SlidingEmitted == InterpolateEmitted /\ node.sliding_window = TRUE
Candidates(c) == interpolate_merged_data(node, data, c)
ElementsOf(s) == {s[i] : i \in 1..Len(s)}

\* C5: in sliding mode every output sample is the maximum of the candidates
\* of its slot: a slot with the two candidates v1 < v2 (in either order)
\* yields v2, a slot with one candidate yields that candidate.
C5_OverlapMax ==
    SlidingEmitted =>
        \A c \in Channels :
            /\ Len(output[c]) = Len(Candidates(c))
            /\ \A i \in 1..Len(Candidates(c)) :
                 LET candidates == Candidates(c)[i]
                     sample == output[c][i]
                 IN /\ Len(candidates) >= 1
                    /\ sample \in ElementsOf(candidates)
                    /\ \A v \in ElementsOf(candidates) : v <= sample
                    /\ Len(candidates) = 1 => sample = candidates[1]
                    /\ (Len(candidates) = 2 /\ candidates[1] < candidates[2])
                           => sample = candidates[2]
                    /\ (Len(candidates) = 2 /\ candidates[2] < candidates[1])
                           => sample = candidates[1]

C5_Witness ==
    /\ SlidingEmitted
    /\ \E c \in Channels :
          /\ \E i \in 1..Len(Candidates(c)) : Candidates(c)[i] = <<1, 2>>
          /\ \E i \in 1..Len(Candidates(c)) : Candidates(c)[i] = <<2, 1>>
          /\ \E i \in 1..Len(Candidates(c)) : Len(Candidates(c)[i]) = 1

\* C6: in sliding mode W >= 1 epoch values per channel give exactly
\* window_size + (W - 1) * step_size samples on every channel.
C6_SlidingLength ==
    SlidingEmitted =>
        \A c \in Channels :
            Len(output[c]) =
                node.window_size + (Len(data[c]) - 1) * node.step_size

C6_Witness ==
    /\ SlidingEmitted
    /\ get_data_count(data) >= 3
    /\ \E c \in Channels : data[c][1] # data[c][2]

\* C7: in non-sliding mode K epoch values per channel give K * window_size
\* samples on every channel and sample i (from 0) is epoch value
\* i // window_size.
C7_NonSliding ==
    (InterpolateEmitted /\ node.sliding_window = FALSE) =>
        \A c \in Channels :
            /\ Len(output[c]) = Len(data[c]) * node.window_size
            /\ \A i \in 0..(Len(output[c]) - 1) :
                 output[c][i + 1] = data[c][(i \div node.window_size) + 1]

C7_Witness ==
    /\ InterpolateEmitted /\ node.sliding_window = FALSE
    /\ get_data_count(data) >= 2
    /\ \E c \in Channels : data[c][1] # data[c][2]

DataReplicateEmitted == pc = "emitted" /\ node.type = "DataReplicate"

\* C8: on a non-empty input every channel of DataReplicate's output has
\* input_length * data_repetition_count samples, plus extra_data when
\* use_extra_data is set; sample i (from 0) of the replicated part is input
\* sample i // data_repetition_count, and the extra samples all equal the
\* channel's last input sample.
C8_Replicate ==
    (DataReplicateEmitted /\ get_data_count(data) >= 1) =>
        \A c \in Channels :
            LET replicated == Len(data[c]) * node.data_repetition_count
                extra == IF node.use_extra_data THEN node.extra_data ELSE 0
            IN /\ Len(output[c]) = replicated + extra
               /\ \A i \in 0..(replicated - 1) :
                    output[c][i + 1] =
                        data[c][(i \div node.data_repetition_count) + 1]
               /\ \A i \in replicated..(replicated + extra - 1) :
                    output[c][i + 1] = data[c][Len(data[c])]

C8_Witness ==
    /\ DataReplicateEmitted
    /\ node.use_extra_data = TRUE
    /\ get_data_count(data) >= 2
    /\ \E c \in Channels : data[c][1] # data[c][Len(data[c])]
InterpolateAttempted == Attempted(Interpolate_MODULE_NAME, "Interpolate")
DataReplicateAttempted == Attempted(DataReplicate_MODULE_NAME, "DataReplicate")
RejectedWith(type, parameter) ==
    Rejected /\ exception.type = type /\ exception.parameter = parameter
\* The outcome the claim gives for a size parameter, a boolean toggle and a
\* parameter that depends on the toggle.
ToggledOutcome(size, size_name, toggle, toggle_name, dependent, dependent_name, fields) ==
    IF size.kind = "absent" THEN RejectedWith("MissingParameterError", size_name)
    ELSE IF ~(IsInt(size) /\ size.int > 1)
        THEN RejectedWith("InvalidParameterValue", size_name)
    ELSE IF toggle.kind = "absent" THEN RejectedWith("MissingParameterError", toggle_name)
    ELSE IF toggle.kind # "bool" THEN RejectedWith("InvalidParameterValue", toggle_name)
    ELSE IF toggle.bool /\ dependent.kind = "absent"
        THEN RejectedWith("MissingParameterError", dependent_name)
    ELSE IF toggle.bool
            /\ ~(IsInt(dependent) /\ 1 < dependent.int /\ dependent.int < size.int)
        THEN RejectedWith("InvalidParameterValue", dependent_name)
    ELSE Accepted /\ node = fields

AgreeingOn(d, c) ==
    {[x \in Channels |-> IF x = c THEN d[c] ELSE Repeat(v, Len(d[x]))] : v \in Values}
Transform(self, d) ==
    IF self.type = "SlidingWindowSegmenter" THEN segment_data(self, d)
    ELSE IF self.type = "Interpolate" THEN Interpolate_process(self, d)
    ELSE DataReplicate_process(self, d)

\* C10: the output on channel c is the output the node gives on channel c for
\* any input of the same shape that agrees with the data on channel c: it is
\* compared with the inputs whose other channels are constant, so two inputs
\* that agree on c give the same output on c, both being equal to that of
\* the same constant-filled input.
C10_ChannelIndependence ==
    pc = "emitted" =>
        \A c \in Channels : \A other \in AgreeingOn(data, c) :
            Transform(node, other)[c] = output[c]

C10_Witness ==
    /\ SegmenterEmitted
    /\ node.filling_value = "latest"
    /\ get_data_count(data) >= 2
    /\ Remaining < node.window_size
    /\ data["ch1"][Len(data["ch1"])] # data["ch2"][Len(data["ch2"])]
    /\ \A c \in Channels : \A other \in AgreeingOn(data, c) : other # data
\* An input of N samples per channel in which every sample is its own position
\* (from 1): the first element of an epoch of this input is the position the
\* epoch starts at, and a zero can only be filling.
PositionData(N) == [c \in Channels |-> [i \in 1..N |-> i]]
\* the sample index (from 0) at which epoch k (from 1) of a channel starts
StartIndex(epochs, k) == epochs[k][1] - 1
EmitsWindowTwice(epochs) ==
    \E j, k \in 1..Len(epochs) :
        j # k /\ StartIndex(epochs, j) = StartIndex(epochs, k)
AcceptedSegmenters ==
    {SlidingWindowSegmenter_init(p) : p \in
        {q \in SegmenterParameters :
            SlidingWindowSegmenter_validate_parameters(q) = NoException}}

\* C11 as stated: some accepted (window_size, step_size) and some channel
\* length N make segment_data emit two epochs of one channel that start at
\* the same sample index.  The statement is about segment_data as a function,
\* so it is evaluated over all accepted segmenters and all lengths, in the
\* states in which segment_data has been called.
C11_AsStated ==
    SegmenterEmitted =>
        \E self \in AcceptedSegmenters : \E N \in 0..MaxLen : \E c \in Channels :
            EmitsWindowTwice(segment_data(self, PositionData(N))[c])

\* C11 (amended): segment_data never emits a window twice.  The epochs of a
\* channel are the windows of the input at pairwise distinct start indices,
\* also when the data ends exactly at the end of a window (remaining equal to
\* window_size), where the last full window is emitted once, after the loop.
C11_NoWindowTwice ==
    SegmenterEmitted =>
        \A c \in Channels :
            LET windows == segment_data(node, PositionData(Len(data[c])))[c]
            IN /\ Len(output[c]) = Len(windows)
               /\ \A k \in 1..Len(windows) :
                    /\ Len(output[c][k]) = Len(windows[k])
                    /\ \A j \in 1..Len(windows[k]) :
                         windows[k][j] >= 1 =>
                             output[c][k][j] = data[c][windows[k][j]]
               /\ ~EmitsWindowTwice(windows)

C11_Witness ==
    /\ SegmenterEmitted
    /\ get_data_count(data) > node.window_size
    /\ node.step_size > 1
    /\ Remaining = node.window_size
    /\ \A c \in Channels : Len(output[c]) >= 2
\* the epochs of channel c when the while loop of segment_data has ended
LoopEpochs(c) == segment_loop(node, data, 0, EmptyData).segmented_data[c]

\* C12: at the exit of the loop on N >= 1 samples 0 < remaining <= window_size
\* holds, so exactly one epoch is emitted after the loop; remaining is 0, with
\* no final epoch and an empty output, only for N = 0.
C12_RemainingAtLoopExit ==
    SegmenterEmitted =>
        LET N == get_data_count(data)
        IN /\ N >= 1 => (0 < Remaining /\ Remaining <= node.window_size)
           /\ (Remaining = 0) <=> (N = 0)
           /\ \A c \in Channels :
                 IF N = 0 THEN LoopEpochs(c) = <<>> /\ output[c] = <<>>
                 ELSE /\ Len(output[c]) = Len(LoopEpochs(c)) + 1
                      /\ SubSeq(output[c], 1, Len(LoopEpochs(c))) = LoopEpochs(c)

C12_Witness ==
    /\ SegmenterEmitted
    /\ node.window_size >= 3
    /\ ExitIndex > 0
    /\ Remaining = 2
    /\ \A c \in Channels : Len(output[c]) = Len(LoopEpochs(c)) + 1
\* the windows (from 0) of the segmenter's geometry that hold slot i (from 0)
WindowsHolding(i, W) ==
    {w \in 0..(W - 1) :
        w * node.step_size <= i /\ i < w * node.step_size + node.window_size}
Lowest(S) == CHOOSE w \in S : \A v \in S : w <= v

\* C13: when all W epochs are merged, the candidates of slot i are the values
\* of the epochs w with w * step_size <= i < w * step_size + window_size, each
\* once (in the order of the epochs) and nothing else; there are
\* window_size + (W - 1) * step_size slots.
C13_CandidateGeometry ==
    SlidingEmitted =>
        \A c \in Channels :
            LET W == Len(data[c])
                merged_data == Candidates(c)
            IN /\ Len(merged_data) = node.window_size + (W - 1) * node.step_size
               /\ \A i \in 0..(Len(merged_data) - 1) :
                    LET holding == WindowsHolding(i, W)
                    IN /\ holding # {}
                       /\ Len(merged_data[i + 1]) = Cardinality(holding)
                       /\ \A j \in 1..Cardinality(holding) :
                            /\ Lowest(holding) + j - 1 \in holding
                            /\ merged_data[i + 1][j]
                                   = data[c][Lowest(holding) + j]

C13_Witness ==
    /\ SlidingEmitted
    /\ node.window_size - node.step_size > node.step_size
    /\ \E c \in Channels : \E i \in 1..Len(Candidates(c)) :
          /\ Len(Candidates(c)[i]) = 3
          /\ Candidates(c)[i][1] # Candidates(c)[i][2]
          /\ Candidates(c)[i][2] # Candidates(c)[i][3]
====
